---- MODULE Spec2Model ----
(***************************************************************************)
(* The stack machine of src/stack-machine.js (class StackMachine): an      *)
(* Int8Array stack with a counter, an Int8Array memory, an instruction     *)
(* pointer, and the three public calls load / execute / reset.             *)
(*                                                                         *)
(* JavaScript values are modelled as integers.  The two non-integer values *)
(* the engine can produce, undefined (a typed-array read outside the       *)
(* array, an absent field) and NaN (arithmetic on undefined), are the two  *)
(* sentinels below; every arithmetic or comparison on JavaScript values    *)
(* goes through the Js* operators, which treat the sentinels as            *)
(* JavaScript does.                                                        *)
(*                                                                         *)
(* Further down: the assembler of src/unnamed/part_000 (class Assembly:    *)
(* parseProgram, generateInstructions) over texts that are sequences of    *)
(* characters, and the Controller of src/index.html, which assembles the   *)
(* edited text, loads the machine and steps it from clicks and from the    *)
(* ticks of an interval.                                                   *)
(***************************************************************************)
EXTENDS Integers, Sequences, FiniteSets, TLC

VARIABLES stack, stackCounter, memory, instructionPointer,
          lastCall, report, thrown,
          programText, parseTree, instructions,
          program, executionTerminated, runIntervalId, timers, onclick,
          lastEvent, alerted

vars == <<stack, stackCounter, memory, instructionPointer,
          lastCall, report, thrown,
          programText, parseTree, instructions,
          program, executionTerminated, runIntervalId, timers, onclick,
          lastEvent, alerted>>

machine == <<stack, stackCounter, memory, instructionPointer>>

\* the text last handed to the assembler, and what its caller holds of the
\* assembler's results
assembly == <<programText, parseTree, instructions>>

\* the Controller's other fields: the program text, the terminated flag, the
\* interval id; the browser's live intervals and the handler of the Run/Stop
\* button; the last event handled and the alert it showed, "" for none
controller == <<program, executionTerminated, runIntervalId, timers, onclick,
                lastEvent, alerted>>

-----------------------------------------------------------------------------
(* static configuration                                                    *)

wordSize == 8
stackSize == 2 ^ wordSize
memorySize == 2 ^ wordSize

operations ==
  << "halt", "noOperation", "push", "pop", "store", "load", "add",
     "subtract", "multiply", "divide", "less", "greater", "same",
     "different", "and", "or", "not", "jump", "jumpConditionally" >>

-----------------------------------------------------------------------------
(* JavaScript values                                                       *)

undefined == 0 - 100000
NaN == 0 - 100001

IsInteger(v) == v # undefined /\ v # NaN

JsAdd(a, b) == IF IsInteger(a) /\ IsInteger(b) THEN a + b ELSE NaN
JsSub(a, b) == IF IsInteger(a) /\ IsInteger(b) THEN a - b ELSE NaN
JsMul(a, b) == IF IsInteger(a) /\ IsInteger(b) THEN a * b ELSE NaN

\* a < b and a > b are false as soon as one side is undefined or NaN
JsLess(a, b) == IsInteger(a) /\ IsInteger(b) /\ a < b
JsGreater(a, b) == IsInteger(a) /\ IsInteger(b) /\ a > b

\* a === b: NaN is not equal to itself, undefined is
JsStrictEq(a, b) == a # NaN /\ b # NaN /\ a = b

Abs(n) == IF n < 0 THEN 0 - n ELSE n

\* Math.floor(a / b) for integers a, b with b # 0
FloorDiv(a, b) ==
  LET q == Abs(a) \div Abs(b)
      exact == (Abs(a) % Abs(b)) = 0
  IN  IF (a < 0) = (b < 0) \/ a = 0 THEN q
      ELSE IF exact THEN 0 - q ELSE 0 - q - 1

JsFloorDiv(a, b) ==
  IF IsInteger(a) /\ IsInteger(b) /\ b # 0 THEN FloorDiv(a, b) ELSE NaN

\* a % b of JavaScript: the remainder takes the sign of the dividend
JsRem(a, b) ==
  IF IsInteger(a) /\ IsInteger(b) /\ b # 0
    THEN IF a < 0 THEN 0 - (Abs(a) % Abs(b)) ELSE Abs(a) % Abs(b)
    ELSE NaN

\* the conversion an Int8Array applies to a number stored into it
ToInt8(v) ==
  IF IsInteger(v)
    THEN ((v + 2 ^ (wordSize - 1)) % (2 ^ wordSize)) - 2 ^ (wordSize - 1)
    ELSE 0

\* typedArray[i]: undefined outside the array
ArrayGet(arr, len, i) == IF i \in 0 .. (len - 1) THEN arr[i] ELSE undefined

\* typedArray[i] = v: converted on the way in, ignored outside the array
ArraySet(arr, len, i, v) ==
  IF i \in 0 .. (len - 1) THEN [arr EXCEPT ![i] = ToInt8(v)] ELSE arr

\* typedArray.fill(v, start, end): negative indices count from the end
RelativeIndex(len, i) ==
  IF i < 0 THEN (IF len + i < 0 THEN 0 ELSE len + i)
           ELSE (IF i > len THEN len ELSE i)

ArrayFill(arr, len, v, start, end) ==
  LET k == RelativeIndex(len, start)
      final == RelativeIndex(len, end)
  IN  [i \in 0 .. (len - 1) |-> IF k <= i /\ i < final THEN v ELSE arr[i]]

-----------------------------------------------------------------------------
(* getOpNameByCode / getOpCodeByName                                       *)

\* a variant that counts the operations from 1
getOpNameByCode_OneBased(opCode) ==
  IF opCode \in 1 .. Len(operations)
    THEN operations[opCode]
    ELSE "undefined"

\* Object.keys(operations)[opCode]: undefined unless opCode indexes the list
getOpNameByCode(opCode) ==
  IF opCode \in 0 .. (Len(operations) - 1)
    THEN operations[opCode + 1]
    ELSE "undefined"

\* a variant of getOpCodeByName that counts the operations from 1
getOpCodeByName_FromOne(opName) ==
  IF \E i \in 1 .. Len(operations) : operations[i] = opName
    THEN CHOOSE i \in 1 .. Len(operations) : operations[i] = opName
    ELSE 0 - 1

getOpCodeByName(opName) ==
  IF \E i \in 1 .. Len(operations) : operations[i] = opName
    THEN (CHOOSE i \in 1 .. Len(operations) : operations[i] = opName) - 1
    ELSE 0 - 1

-----------------------------------------------------------------------------
(* range predicates                                                        *)

\* a variant without the upper bound
isInValueRange_NoUpperBound(value) ==
  /\ IsInteger(value)
  /\ 0 - (2 ^ (wordSize - 1)) <= value

isInValueRange(value) ==
  /\ IsInteger(value)
  /\ 0 - (2 ^ (wordSize - 1)) <= value
  /\ value <= 2 ^ (wordSize - 1) - 1

isInAddressRange(address) ==
  /\ IsInteger(address)
  /\ 0 <= address
  /\ address < memorySize

isInStackCount(value) ==
  (IsInteger(value) /\ 0 <= value) \/ JsLess(value, stackCounter)

\* the stack entry at distance d below the counter: stack[stackCounter - d]
StackAt(d) == ArrayGet(stack, stackSize, stackCounter - d)

\* memory[address]; the address may itself be undefined or NaN
MemoryAt(address) == ArrayGet(memory, memorySize, address)

-----------------------------------------------------------------------------
(* state changes: what an operation hands to execute, or the error thrown  *)

\* the object literal an operation passes to defineSafeStateChange, with the
\* defaults of its destructuring
Change(halt, popped, pushed, address, value, diff) ==
  [ threw |-> FALSE, error |-> "",
    halt |-> halt,
    numStackValuesPopped |-> popped,
    stackValuesPushed |-> pushed,
    memoryAddressWritten |-> address,
    memoryValueWritten |-> value,
    instructionPointerDiff |-> diff ]

Throw(error) ==
  [ threw |-> TRUE, error |-> error,
    halt |-> FALSE,
    numStackValuesPopped |-> 0,
    stackValuesPushed |-> << >>,
    memoryAddressWritten |-> undefined,
    memoryValueWritten |-> undefined,
    instructionPointerDiff |-> undefined ]

\* a variant that does not check where the instruction pointer lands
defineSafeStateChange_NoPointerCheck(c) ==
  IF ~isInStackCount(c.numStackValuesPopped)
    THEN Throw("Error: numStackValuesPopped")
  ELSE IF \E i \in 1 .. Len(c.stackValuesPushed) :
            ~isInValueRange(c.stackValuesPushed[i])
    THEN Throw("Error: stackValuesPushed")
  ELSE IF c.memoryAddressWritten # undefined
          /\ ~isInAddressRange(c.memoryAddressWritten)
    THEN Throw("Error: memoryAddressWritten")
  ELSE IF c.memoryValueWritten # undefined
          /\ ~isInValueRange(c.memoryValueWritten)
    THEN Throw("Error: memoryValueWritten")
  ELSE c

defineSafeStateChange(c) ==
  IF ~isInStackCount(c.numStackValuesPopped)
    THEN Throw("Error: numStackValuesPopped")
  ELSE IF \E i \in 1 .. Len(c.stackValuesPushed) :
            ~isInValueRange(c.stackValuesPushed[i])
    THEN Throw("Error: stackValuesPushed")
  ELSE IF c.memoryAddressWritten # undefined
          /\ ~isInAddressRange(c.memoryAddressWritten)
    THEN Throw("Error: memoryAddressWritten")
  ELSE IF c.memoryValueWritten # undefined
          /\ ~isInValueRange(c.memoryValueWritten)
    THEN Throw("Error: memoryValueWritten")
  ELSE IF ~c.halt
          /\ ~isInAddressRange(JsAdd(instructionPointer, c.instructionPointerDiff))
    THEN Throw("Error: instructionPointerDiff")
  ELSE c

ensureMemoryBounds(address) == ~(address < 0 \/ address >= memorySize)

ensureStackCount(amount) == ~(stackCounter < amount)

StackCountError == Throw("RangeError: stack must contain at least n items")

BoolWord(b) == IF b THEN 1 ELSE 0

-----------------------------------------------------------------------------
(* the nineteen operations                                                 *)

\* a variant of halt that leaves the instruction pointer on the halt word
halt_StaysInPlace == defineSafeStateChange(
  Change(TRUE, 0, << >>, undefined, undefined, 0))

halt == defineSafeStateChange(
  Change(TRUE, 0, << >>, undefined, undefined, undefined))

noOperation == defineSafeStateChange(
  Change(FALSE, 0, << >>, undefined, undefined, 1))

push ==
  IF ~ensureMemoryBounds(instructionPointer + 1)
    THEN Throw("RangeError: address out of memory bounds")
    ELSE defineSafeStateChange(
           Change(FALSE, 0, << MemoryAt(instructionPointer + 1) >>,
                  undefined, undefined, 2))

pop == defineSafeStateChange(
  Change(FALSE, 1, << >>, undefined, undefined, 1))

store ==
  IF ~ensureStackCount(2) THEN StackCountError
    ELSE defineSafeStateChange(
           Change(FALSE, 2, << >>, StackAt(1), StackAt(2), 1))

load ==
  IF ~ensureStackCount(1) THEN StackCountError
    ELSE defineSafeStateChange(
           Change(FALSE, 1, << MemoryAt(StackAt(1)) >>, undefined, undefined, 1))

add ==
  IF ~ensureStackCount(2) THEN StackCountError
    ELSE defineSafeStateChange(
           Change(FALSE, 2, << JsAdd(StackAt(1), StackAt(2)) >>,
                  undefined, undefined, 1))

\* a variant of subtract that takes its operands as (second, top)
subtract_SecondMinusTop ==
  IF ~ensureStackCount(2) THEN StackCountError
    ELSE defineSafeStateChange(
           Change(FALSE, 2, << JsSub(StackAt(2), StackAt(1)) >>,
                  undefined, undefined, 1))

subtract ==
  IF ~ensureStackCount(2) THEN StackCountError
    ELSE defineSafeStateChange(
           Change(FALSE, 2, << JsSub(StackAt(1), StackAt(2)) >>,
                  undefined, undefined, 1))

multiply ==
  IF ~ensureStackCount(2) THEN StackCountError
    ELSE defineSafeStateChange(
           Change(FALSE, 2, << JsMul(StackAt(1), StackAt(2)) >>,
                  undefined, undefined, 1))

\* a variant of divide that pushes the quotient alone
divide_QuotientOnly ==
  IF ~ensureStackCount(2) THEN StackCountError
    ELSE defineSafeStateChange(
           Change(FALSE, 2,
                  << IF JsStrictEq(StackAt(2), 0) THEN StackAt(1)
                     ELSE JsFloorDiv(StackAt(1), StackAt(2)) >>,
                  undefined, undefined, 1))

\* a variant of divide whose quotient by zero is 0
divide_ZeroQuotient ==
  IF ~ensureStackCount(2) THEN StackCountError
    ELSE defineSafeStateChange(
           Change(FALSE, 2,
                  << IF JsStrictEq(StackAt(2), 0) THEN StackAt(1)
                     ELSE JsRem(StackAt(1), StackAt(2)),
                     IF JsStrictEq(StackAt(2), 0) THEN 0
                     ELSE JsFloorDiv(StackAt(1), StackAt(2)) >>,
                  undefined, undefined, 1))

divide ==
  IF ~ensureStackCount(2) THEN StackCountError
    ELSE LET dividend == StackAt(1)
             divisor == StackAt(2)
             quotient == IF JsStrictEq(divisor, 0) THEN dividend
                         ELSE JsFloorDiv(dividend, divisor)
             remainder == IF JsStrictEq(divisor, 0) THEN dividend
                          ELSE JsRem(dividend, divisor)
         IN  defineSafeStateChange(
               Change(FALSE, 2, << remainder, quotient >>,
                      undefined, undefined, 1))

less ==
  IF ~ensureStackCount(2) THEN StackCountError
    ELSE defineSafeStateChange(
           Change(FALSE, 2, << BoolWord(JsLess(StackAt(1), StackAt(2))) >>,
                  undefined, undefined, 1))

greater ==
  IF ~ensureStackCount(2) THEN StackCountError
    ELSE defineSafeStateChange(
           Change(FALSE, 2, << BoolWord(JsGreater(StackAt(1), StackAt(2))) >>,
                  undefined, undefined, 1))

same ==
  IF ~ensureStackCount(2) THEN StackCountError
    ELSE defineSafeStateChange(
           Change(FALSE, 2, << BoolWord(JsStrictEq(StackAt(1), StackAt(2))) >>,
                  undefined, undefined, 1))

different ==
  IF ~ensureStackCount(2) THEN StackCountError
    ELSE defineSafeStateChange(
           Change(FALSE, 2, << BoolWord(~JsStrictEq(StackAt(1), StackAt(2))) >>,
                  undefined, undefined, 1))

and ==
  IF ~ensureStackCount(2) THEN StackCountError
    ELSE defineSafeStateChange(
           Change(FALSE, 2,
                  << BoolWord(JsStrictEq(StackAt(1), 1) /\ JsStrictEq(StackAt(2), 1)) >>,
                  undefined, undefined, 1))

or ==
  IF ~ensureStackCount(2) THEN StackCountError
    ELSE defineSafeStateChange(
           Change(FALSE, 2,
                  << BoolWord(JsStrictEq(StackAt(1), 1) \/ JsStrictEq(StackAt(2), 1)) >>,
                  undefined, undefined, 1))

not ==
  IF ~ensureStackCount(1) THEN StackCountError
    ELSE defineSafeStateChange(
           Change(FALSE, 1, << BoolWord(JsStrictEq(StackAt(1), 0)) >>,
                  undefined, undefined, 1))

\* a variant of jump that leaves its target on the stack
jump_KeepsTarget ==
  IF ~ensureStackCount(1) THEN StackCountError
    ELSE defineSafeStateChange(
           Change(FALSE, 0, << >>, undefined, undefined,
                  JsSub(StackAt(1), instructionPointer)))

\* a variant of jump that takes its operand as a distance
jump_Relative ==
  IF ~ensureStackCount(1) THEN StackCountError
    ELSE defineSafeStateChange(
           Change(FALSE, 1, << >>, undefined, undefined, StackAt(1)))

jump ==
  IF ~ensureStackCount(1) THEN StackCountError
    ELSE defineSafeStateChange(
           Change(FALSE, 1, << >>, undefined, undefined,
                  JsSub(StackAt(1), instructionPointer)))

\* a variant of jumpConditionally that jumps on every condition but 0
jumpConditionally_OnNonZero ==
  IF ~ensureStackCount(2) THEN StackCountError
    ELSE defineSafeStateChange(
           Change(FALSE, 2, << >>, undefined, undefined,
                  IF ~JsStrictEq(StackAt(1), 0)
                    THEN JsSub(StackAt(2), instructionPointer)
                    ELSE 1))

jumpConditionally ==
  IF ~ensureStackCount(2) THEN StackCountError
    ELSE defineSafeStateChange(
           Change(FALSE, 2, << >>, undefined, undefined,
                  IF JsStrictEq(StackAt(1), 1)
                    THEN JsSub(StackAt(2), instructionPointer)
                    ELSE 1))

\* the handler bound to a name, called
getOperationByName(opName) ==
  CASE opName = "halt" -> halt
    [] opName = "noOperation" -> noOperation
    [] opName = "push" -> push
    [] opName = "pop" -> pop
    [] opName = "store" -> store
    [] opName = "load" -> load
    [] opName = "add" -> add
    [] opName = "subtract" -> subtract
    [] opName = "multiply" -> multiply
    [] opName = "divide" -> divide
    [] opName = "less" -> less
    [] opName = "greater" -> greater
    [] opName = "same" -> same
    [] opName = "different" -> different
    [] opName = "and" -> and
    [] opName = "or" -> or
    [] opName = "not" -> not
    [] opName = "jump" -> jump
    [] opName = "jumpConditionally" -> jumpConditionally
    [] OTHER -> Throw("Error: no implementation for operation")

-----------------------------------------------------------------------------
(* execute                                                                 *)

\* lines 82-93: fetch, decode, and the state change the operation returns
\* (or the error thrown on the way)
Operation ==
  LET opCode == MemoryAt(instructionPointer)
      opName == getOpNameByCode(opCode)
  IN  IF opName = "undefined"
        THEN Throw("RangeError: invalid operation code")
        ELSE getOperationByName(opName)

\* lines 97-99: stack[at++] = value for each pushed value, in order
RECURSIVE PushAll(_, _, _)
PushAll(arr, at, values) ==
  IF values = << >> THEN arr
  ELSE PushAll(ArraySet(arr, stackSize, at, Head(values)), at + 1, Tail(values))

\* a variant that lowers the counter over the popped entries and leaves
\* them in their slots
Apply_LeavesPopped(c) ==
  LET intermediateStackCounter == stackCounter - c.numStackValuesPopped
  IN  [ stack |-> PushAll(stack, intermediateStackCounter, c.stackValuesPushed),
        stackCounter |-> intermediateStackCounter + Len(c.stackValuesPushed),
        memory |-> IF c.memoryAddressWritten # undefined
                     THEN ArraySet(memory, memorySize,
                                   c.memoryAddressWritten, c.memoryValueWritten)
                     ELSE memory,
        instructionPointer |-> JsAdd(instructionPointer, c.instructionPointerDiff) ]

\* lines 95-106: the machine after the state change c is applied
Apply(c) ==
  LET intermediateStackCounter == stackCounter - c.numStackValuesPopped
      filled == ArrayFill(stack, stackSize, 0,
                          intermediateStackCounter, stackCounter)
  IN  [ stack |-> PushAll(filled, intermediateStackCounter, c.stackValuesPushed),
        stackCounter |-> intermediateStackCounter + Len(c.stackValuesPushed),
        memory |-> IF c.memoryAddressWritten # undefined
                     THEN ArraySet(memory, memorySize,
                                   c.memoryAddressWritten, c.memoryValueWritten)
                     ELSE memory,
        instructionPointer |-> JsAdd(instructionPointer, c.instructionPointerDiff) ]

Untouched ==
  [ stack |-> stack, stackCounter |-> stackCounter,
    memory |-> memory, instructionPointer |-> instructionPointer ]

\* a variant whose error path empties the stack
ExecuteResult_ClearsStackOnError(c) ==
  IF c.threw
    THEN [Untouched EXCEPT !.stack = [i \in 0 .. (stackSize - 1) |-> 0],
                           !.stackCounter = 0]
    ELSE Apply(c)

\* a variant that moves the instruction pointer past a failed instruction
ExecuteResult_SkipsFailed(c) ==
  IF c.threw
    THEN [Untouched EXCEPT !.instructionPointer = JsAdd(instructionPointer, 1)]
    ELSE Apply(c)

\* the try/catch of execute: an error thrown by the fetch, the decode or the
\* operation is caught before any assignment
ExecuteResult(c) == IF c.threw THEN Untouched ELSE Apply(c)

\* the object execute returns
ReportOf(c) ==
  IF c.threw
    THEN [ success |-> FALSE, error |-> c.error,
           opName |-> "", opCode |-> undefined, halt |-> FALSE,
           numStackValuesPopped |-> 0, stackValuesPushed |-> << >>,
           instructionPointerDiff |-> undefined,
           memoryAddressWritten |-> undefined,
           memoryValueWritten |-> undefined ]
    ELSE [ success |-> TRUE, error |-> "",
           opName |-> getOpNameByCode(MemoryAt(instructionPointer)),
           opCode |-> MemoryAt(instructionPointer),
           halt |-> c.halt,
           numStackValuesPopped |-> c.numStackValuesPopped,
           stackValuesPushed |-> c.stackValuesPushed,
           instructionPointerDiff |-> c.instructionPointerDiff,
           memoryAddressWritten |-> c.memoryAddressWritten,
           memoryValueWritten |-> c.memoryValueWritten ]

\* a variant whose catch returns a report for a RangeError only and throws
\* every other error on to the caller
ExecuteThrows_CatchesRangeErrorsOnly(c) ==
  IF c.threw
     /\ c.error \notin { "RangeError: invalid operation code",
                         "RangeError: address out of memory bounds",
                         "RangeError: stack must contain at least n items" }
    THEN c.error
    ELSE ""

\* what execute throws to its caller, "" for nothing: the catch of line 119
\* takes every error and returns it in the report
ExecuteThrows(c) == ""

Execute ==
  LET c == Operation
      next == ExecuteResult(c)
  IN  /\ stack' = next.stack
      /\ stackCounter' = next.stackCounter
      /\ memory' = next.memory
      /\ instructionPointer' = next.instructionPointer
      /\ report' = ReportOf(c)
      /\ lastCall' = "execute"
      /\ thrown' = ExecuteThrows(c)

-----------------------------------------------------------------------------
(* load and reset                                                          *)

\* what load throws for words, "" when it throws nothing (words is always an
\* Int8Array here, so the TypeError of line 63 does not arise)
LoadError(words) ==
  IF Len(words) = 0 THEN "RangeError: program must not be empty"
  ELSE IF Len(words) > memorySize
    THEN "RangeError: program size must not exceed memory size"
  ELSE ""

\* a variant of load that clears the memory behind the program
LoadedMemory_ClearsRest(words) ==
  [i \in 0 .. (memorySize - 1) |->
     IF i < Len(words) THEN ToInt8(words[i + 1]) ELSE 0]

\* lines 70-72: memory[i] = words[i] for every index of words
LoadedMemory(words) ==
  [i \in 0 .. (memorySize - 1) |->
     IF i < Len(words) THEN ToInt8(words[i + 1]) ELSE memory[i]]

Load(words) ==
  /\ memory' = IF LoadError(words) = "" THEN LoadedMemory(words) ELSE memory
  /\ thrown' = LoadError(words)
  /\ lastCall' = "load"
  /\ UNCHANGED <<stack, stackCounter, instructionPointer, report>>

\* a variant of reset that leaves the instruction pointer where it is
ResetState_KeepsPointer ==
  [ stack |-> [i \in 0 .. (stackSize - 1) |-> 0],
    stackCounter |-> 0,
    memory |-> [i \in 0 .. (memorySize - 1) |-> 0],
    instructionPointer |-> instructionPointer ]

ResetState ==
  [ stack |-> [i \in 0 .. (stackSize - 1) |-> 0],
    stackCounter |-> 0,
    memory |-> [i \in 0 .. (memorySize - 1) |-> 0],
    instructionPointer |-> 0 ]

Reset ==
  /\ stack' = ResetState.stack
  /\ stackCounter' = ResetState.stackCounter
  /\ memory' = ResetState.memory
  /\ instructionPointer' = ResetState.instructionPointer
  /\ lastCall' = "reset"
  /\ thrown' = ""
  /\ UNCHANGED report

-----------------------------------------------------------------------------
(* the assembler of assembly.js (class Assembly)                           *)
(*                                                                         *)
(* A program text is a sequence of one-character strings.                  *)

\* the mnemonic of each operation, in the order of the operations
mnemonics ==
  <<
    << "h", "a" >>, << "n", "o" >>, << "p", "u" >>, << "p", "o" >>,
    << "s", "t" >>, << "l", "o" >>, << "a", "d" >>, << "s", "u" >>,
    << "m", "u" >>, << "d", "i" >>, << "l", "e" >>, << "g", "r" >>,
    << "s", "a" >>, << "d", "f" >>, << "a", "n" >>, << "o", "r" >>,
    << "n", "t" >>, << "j", "u" >>, << "j", "c" >>
  >>

\* the characters \w, \d and - of the line pattern
WordChars ==
  {
    "a", "b", "c", "d", "e", "f", "g", "h", "i", "j", "k", "l", "m", "n",
    "o", "p", "q", "r", "s", "t", "u", "v", "w", "x", "y", "z", "A", "B",
    "C", "D", "E", "F", "G", "H", "I", "J", "K", "L", "M", "N", "O", "P",
    "Q", "R", "S", "T", "U", "V", "W", "X", "Y", "Z", "0", "1", "2", "3",
    "4", "5", "6", "7", "8", "9", "_", "-"
  }

\* the characters \s and trim take for white space
WhiteSpace == { " ", "\t", "\n" }

\* DigitChars[d + 1] holds the characters that stand for the digit d
DigitChars ==
  <<
    { "0" }, { "1" }, { "2" }, { "3" }, { "4" }, { "5" }, { "6" }, { "7" },
    { "8" }, { "9" }, { "a", "A" }, { "b", "B" }, { "c", "C" },
    { "d", "D" }, { "e", "E" }, { "f", "F" }
  >>

Least(S) == CHOOSE x \in S : \A y \in S : x <= y

Greatest(S) == CHOOSE x \in S : \A y \in S : y <= x

\* String.prototype.split("\n"): the pieces between the line breaks
split(text) ==
  LET ends == SelectSeq([i \in 1 .. (Len(text) + 1) |-> i],
                        LAMBDA i : i = Len(text) + 1 \/ text[i] = "\n")
  IN  [k \in 1 .. Len(ends) |->
         SubSeq(text, IF k = 1 THEN 1 ELSE ends[k - 1] + 1, ends[k] - 1)]

\* String.prototype.trim
trim(line) ==
  LET inked == { i \in 1 .. Len(line) : line[i] \notin WhiteSpace }
  IN  IF inked = { } THEN << >>
      ELSE SubSeq(line, Least(inked), Greatest(inked))

\* Array.prototype.join("\n")
RECURSIVE join(_)
join(lines) ==
  IF Len(lines) = 0 THEN << >>
  ELSE IF Len(lines) = 1 THEN lines[1]
  ELSE lines[1] \o << "\n" >> \o join(Tail(lines))

\* /\s*([\w\d-]+)\s*(#([^\n]+))?/.exec(line) on a line without line breaks.
\* The pattern is not anchored: the match begins at the leftmost place from
\* which white space leads to a word character, so captures[1] is the first
\* maximal run of word characters of the line, wherever it stands; the
\* comment is captured only if a # with at least one character behind it
\* follows that run and its white space.  The empty comment stands for
\* undefined: a captured comment has at least one character.
exec(line) ==
  LET wordAt == { i \in 1 .. Len(line) : line[i] \in WordChars }
  IN  IF wordAt = { }
        THEN [ matched |-> FALSE, code |-> << >>, comment |-> << >> ]
        ELSE LET first == Least(wordAt)
                 last == Greatest({ j \in first .. Len(line) :
                                      \A k \in first .. j : k \in wordAt })
                 behind == Least({ j \in (last + 1) .. (Len(line) + 1) :
                                     j = Len(line) + 1
                                       \/ line[j] \notin WhiteSpace })
             IN  [ matched |-> TRUE,
                   code |-> SubSeq(line, first, last),
                   comment |->
                     IF behind < Len(line) /\ line[behind] = "#"
                       THEN SubSeq(line, behind + 1, Len(line))
                       ELSE << >> ]

\* the number a sequence of digit characters stands for in a radix
RECURSIVE DigitsValue(_, _)
DigitsValue(digits, radix) ==
  IF Len(digits) = 0 THEN 0
  ELSE DigitsValue(SubSeq(digits, 1, Len(digits) - 1), radix) * radix
         + (CHOOSE d \in 0 .. (radix - 1) :
              digits[Len(digits)] \in DigitChars[d + 1])

\* parseInt(code) of a code without white space: an optional -, an optional
\* 0x or 0X that makes the radix 16, then the longest run of digits of the
\* radix; NaN when that run is empty
parseInt(code) ==
  LET negative == Len(code) >= 1 /\ code[1] = "-"
      body == IF negative THEN Tail(code) ELSE code
      hex == Len(body) >= 2 /\ body[1] = "0" /\ body[2] \in { "x", "X" }
      radix == IF hex THEN 16 ELSE 10
      rest == IF hex THEN SubSeq(body, 3, Len(body)) ELSE body
      IsDigit(c) == \E d \in 0 .. (radix - 1) : c \in DigitChars[d + 1]
      run == Greatest({ n \in 0 .. Len(rest) :
                          \A k \in 1 .. n : IsDigit(rest[k]) })
      magnitude == DigitsValue(SubSeq(rest, 1, run), radix)
  IN  IF run = 0 THEN NaN
      ELSE IF negative THEN 0 - magnitude ELSE magnitude

\* what a call of the assembler returns or throws
Parsed(tree) == [ threw |-> FALSE, error |-> "", tree |-> tree ]

ParseFailed(error) == [ threw |-> TRUE, error |-> error, tree |-> << >> ]

\* lines 33-36: the trimmed, non-empty lines of the text
Lines(text) ==
  LET parts == split(text)
  IN  SelectSeq([i \in 1 .. Len(parts) |-> trim(parts[i])],
                LAMBDA line : line # << >>)

\* lines 46-55: the node of one code; type "" for the code that is neither
\* a number nor a mnemonic
Node(code, comment) ==
  IF parseInt(code) # NaN
    THEN [ code |-> code, type |-> "data", value |-> parseInt(code),
           comment |-> comment ]
  ELSE IF \E k \in 1 .. Len(mnemonics) : mnemonics[k] = code
    THEN [ code |-> code,
           type |-> operations[CHOOSE k \in 1 .. Len(mnemonics) :
                                 mnemonics[k] = code],
           value |-> undefined, comment |-> comment ]
  ELSE [ code |-> code, type |-> "", value |-> undefined,
         comment |-> comment ]

parseProgram(text) ==
  LET lines == Lines(text)
      captures == [i \in 1 .. Len(lines) |-> exec(lines[i])]
      nodes == [i \in 1 .. Len(lines) |->
                  Node(captures[i].code, captures[i].comment)]
  IN  IF Len(lines) > memorySize
        THEN ParseFailed("RangeError: program length exceeds memory size")
      ELSE IF \E i \in 1 .. Len(lines) : ~captures[i].matched
        THEN ParseFailed("TypeError: captures is null")
      ELSE IF \E i \in 1 .. Len(lines) : nodes[i].type = ""
        THEN ParseFailed("Error: invalid assembly code")
      ELSE Parsed(nodes)

Generated(words) == [ threw |-> FALSE, error |-> "", words |-> words ]

GenerateFailed(error) == [ threw |-> TRUE, error |-> error, words |-> << >> ]

\* a variant of generateInstructions that leaves the range of a data word
\* to the Int8Array
generateInstructions_Unchecked(tree) ==
  Generated([i \in 1 .. Len(tree) |->
               IF tree[i].type = "data" THEN ToInt8(tree[i].value)
               ELSE getOpCodeByName(tree[i].type)])

generateInstructions(tree) ==
  IF \E i \in 1 .. Len(tree) :
       tree[i].type = "data" /\ ~isInValueRange(tree[i].value)
    THEN GenerateFailed("RangeError: data value exceeds value range")
    ELSE Generated([i \in 1 .. Len(tree) |->
                      IF tree[i].type = "data" THEN ToInt8(tree[i].value)
                      ELSE getOpCodeByName(tree[i].type)])

\* the caller keeps the text it hands to parseProgram in programText, the
\* tree it gets in parseTree and the words it gets in instructions
ParseProgram(text) ==
  /\ programText' = text
  /\ parseTree' = IF parseProgram(text).threw THEN parseTree
                  ELSE parseProgram(text).tree
  /\ lastCall' = "parseProgram"
  /\ thrown' = parseProgram(text).error
  /\ UNCHANGED <<machine, report, instructions, controller>>

GenerateInstructions ==
  /\ instructions' = IF generateInstructions(parseTree).threw
                       THEN instructions
                       ELSE generateInstructions(parseTree).words
  /\ lastCall' = "generateInstructions"
  /\ thrown' = generateInstructions(parseTree).error
  /\ UNCHANGED <<machine, report, programText, parseTree, controller>>

-----------------------------------------------------------------------------
(* the page's Controller of index.html                                     *)
(*                                                                         *)
(* The fields that decide what the machine is given and when it is         *)
(* stepped are modelled; the views the controller paints (program, stack,  *)
(* memory, execution marker) are not.  What #next paints comes after its   *)
(* last assignment to a modelled field, so an error thrown while painting  *)
(* leaves the modelled fields as the action says.                          *)

\* #runIntervalId = null; setInterval returns positive ids
null == 0

\* lines 154-160
unindentProgram(text) ==
  LET kept == SelectSeq(split(text), LAMBDA line : line # << >>)
  IN  join([i \in 1 .. Len(kept) |-> trim(kept[i])])

\* lines 384-389
initialProgramText ==
  << "\n", " ", " ", " ", " ", " ", " ", "p", "u", "\n", " ", " ", " ", " ",
    " ", " ", "4", "2", "\n", " ", " ", " ", " ", " ", " ", "p", "u", "\n",
    " ", " ", " ", " ", " ", " ", "0", "\n", " ", " ", " ", " ", " ", " ",
    "j", "u" >>

\* a variant of #stop that forgets the interval without clearing it
ControllerStop_LeavesInterval ==
  /\ timers' = timers
  /\ runIntervalId' = null
  /\ onclick' = "run"

\* #stop, lines 309-315: clearInterval(null) clears nothing
ControllerStop ==
  /\ timers' = timers \ { runIntervalId }
  /\ runIntervalId' = null
  /\ onclick' = "run"

\* #run, lines 296-307: setInterval returns an id no live interval has
ControllerRun ==
  LET id == Least({ n \in 1 .. (Cardinality(timers) + 1) : n \notin timers })
  IN  /\ timers' = timers \cup { id }
      /\ runIntervalId' = id
      /\ onclick' = "stop"

\* #next, lines 218-244: the step is made first, whatever the flag says
ControllerNext ==
  /\ Execute
  /\ executionTerminated' =
       (executionTerminated \/ ~report'.success \/ report'.halt)
  /\ alerted' = IF executionTerminated THEN ""
                ELSE IF ~report'.success THEN "execution error"
                ELSE IF report'.halt THEN "execution terminated"
                ELSE ""
  /\ UNCHANGED <<assembly, program>>

\* #reset, lines 282-294, for the instructions the field holds when it
\* runs: stop, reset of the machine, load; the load's error leaves the
\* method before the flag is cleared
ControllerReset(words) ==
  /\ ControllerStop
  /\ stack' = ResetState.stack
  /\ stackCounter' = ResetState.stackCounter
  /\ instructionPointer' = ResetState.instructionPointer
  /\ memory' = [i \in 0 .. (memorySize - 1) |->
                  IF LoadError(words) = "" /\ i < Len(words)
                    THEN ToInt8(words[i + 1])
                    ELSE ResetState.memory[i]]
  /\ lastCall' = "load"
  /\ thrown' = LoadError(words)
  /\ executionTerminated' =
       (IF LoadError(words) = "" THEN FALSE ELSE executionTerminated)
  /\ UNCHANGED report

\* a click on Next
ClickNext ==
  /\ ControllerNext
  /\ lastEvent' = "next"
  /\ UNCHANGED <<runIntervalId, timers, onclick>>

\* a click on the Run/Stop button while #run is its handler
ClickRun ==
  /\ onclick = "run"
  /\ ControllerRun
  /\ lastEvent' = "run"
  /\ alerted' = ""
  /\ UNCHANGED <<machine, lastCall, report, thrown, assembly, program,
                 executionTerminated>>

\* a click on the Run/Stop button while #stop is its handler
ClickStop ==
  /\ onclick = "stop"
  /\ ControllerStop
  /\ lastEvent' = "stop"
  /\ alerted' = ""
  /\ UNCHANGED <<machine, lastCall, report, thrown, assembly, program,
                 executionTerminated>>

\* the callback of a live interval, lines 298-301
Tick ==
  /\ timers # { }
  /\ ControllerNext
  /\ lastEvent' = "tick"
  /\ IF executionTerminated' THEN ControllerStop
     ELSE UNCHANGED <<runIntervalId, timers, onclick>>

\* a click on Reset
ClickReset ==
  /\ ControllerReset(instructions)
  /\ lastEvent' = "reset"
  /\ alerted' = ""
  /\ UNCHANGED <<assembly, program>>

\* the editor's submit handler, lines 194-213, for the text in the textarea
SubmitEdit(text) ==
  LET parsed == parseProgram(text)
      generated == generateInstructions(parsed.tree)
  IN  /\ lastEvent' = "edit"
      /\ programText' = text
      /\ IF parsed.threw
           THEN /\ alerted' = parsed.error
                /\ lastCall' = "parseProgram"
                /\ thrown' = parsed.error
                /\ UNCHANGED <<machine, report, parseTree, instructions,
                               program, executionTerminated, runIntervalId,
                               timers, onclick>>
         ELSE IF generated.threw
           THEN /\ parseTree' = parsed.tree
                /\ alerted' = generated.error
                /\ lastCall' = "generateInstructions"
                /\ thrown' = generated.error
                /\ UNCHANGED <<machine, report, instructions, program,
                               executionTerminated, runIntervalId, timers,
                               onclick>>
         ELSE /\ parseTree' = parsed.tree
              /\ instructions' = generated.words
              /\ program' = text
              /\ ControllerReset(generated.words)
              /\ alerted' = LoadError(generated.words)

-----------------------------------------------------------------------------
(* programs the model loads                                                *)

\* index.html: pu 42 / pu 0 / ju
initialProgram == << 2, 42, 2, 0, 17 >>

NoReport ==
  [ success |-> TRUE, error |-> "", opName |-> "", opCode |-> undefined,
    halt |-> FALSE, numStackValuesPopped |-> 0, stackValuesPushed |-> << >>,
    instructionPointerDiff |-> undefined,
    memoryAddressWritten |-> undefined, memoryValueWritten |-> undefined ]

\* the fields of the page before a Controller is made, and no text handed
\* to the assembler yet
NoPage ==
  /\ programText = << >>
  /\ parseTree = << >>
  /\ instructions = << >>
  /\ program = << >>
  /\ executionTerminated = FALSE
  /\ runIntervalId = null
  /\ timers = { }
  /\ onclick = "none"
  /\ lastEvent = "none"
  /\ alerted = ""

\* the fields of a new StackMachine; no call made yet
Init ==
  /\ stack = [i \in 0 .. (stackSize - 1) |-> 0]
  /\ stackCounter = 0
  /\ memory = [i \in 0 .. (memorySize - 1) |-> 0]
  /\ instructionPointer = 0
  /\ lastCall = "none"
  /\ report = NoReport
  /\ thrown = ""
  /\ NoPage

\* a program longer than the memory
tooLongProgram == [i \in 1 .. (memorySize + 1) |-> 1]

\* Int8Array programs a caller hands to load: each is a run the claims are
\* about (mnemonics as in Assembly.mnemonics)
Programs ==
  { << 0 >>,                              \* ha
    << 3 >>,                              \* po
    << 19, 1, 0 >>,                       \* no operation has code 19
    << 1, 0 - 1 >>,                       \* no, then a negative word
    << 2, 127, 2, 127, 6 >>,              \* pu 127, pu 127, ad
    << 2, 7, 2, 9, 4, 2, 9, 5, 0 >>,      \* pu 7, pu 9, st, pu 9, lo, ha
    << 2, 0 - 1, 17 >> }                  \* pu -1, ju

LoadInputs == Programs \cup { << >>, tooLongProgram }

Next ==
  \/ (\E words \in LoadInputs : Load(words)) /\ UNCHANGED <<assembly, controller>>
  \/ Execute /\ UNCHANGED <<assembly, controller>>
  \/ Reset /\ UNCHANGED <<assembly, controller>>

Spec == Init /\ [][Next]_vars

\* the page's start: the initial program loaded into a new machine, then
\* stepped
NextInitialProgram ==
  \/ lastCall = "none" /\ Load(initialProgram)
       /\ UNCHANGED <<assembly, controller>>
  \/ lastCall # "none" /\ Execute /\ UNCHANGED <<assembly, controller>>

SpecInitialProgram == Init /\ [][NextInitialProgram]_vars

\* operands: those within MaxOperand of zero and those at the edges of the
\* word range
MaxOperand == 3

OperandValues ==
  ((0 - MaxOperand) .. MaxOperand)
    \cup { 0 - 2 ^ (wordSize - 1), 1 - 2 ^ (wordSize - 1),
           2 ^ (wordSize - 1) - 1, 2 ^ (wordSize - 1) - 2,
           2 ^ (wordSize - 2), 0 - 2 ^ (wordSize - 2), 7, 0 - 7 }

\* pu second, pu top, op: every operation on every pair of operands
OperandPrograms ==
  { << 2, second, 2, top, opCode >> :
      second \in OperandValues, top \in OperandValues,
      opCode \in 0 .. (Len(operations) - 1) }

\* programs that fill the memory: no up to the last cell, which holds no or
\* pu, so that the run reaches the end of the memory
SledPrograms ==
  { [i \in 1 .. memorySize |-> IF i = memorySize THEN last ELSE 1] :
      last \in { 1, 2 } }

\* the two jumps behind one to MaxNops no-operations, so that they run at
\* more than one address
MaxNops == 2

JumpPrograms ==
  { [i \in 1 .. nops |-> 1] \o << 2, second, 2, top, opCode >> :
      nops \in 1 .. MaxNops,
      second \in OperandValues, top \in OperandValues,
      opCode \in { 17, 18 } }

\* a loop that leaves three more entries on the stack each time round (pu 5,
\* pu 5, pu 5, pu 0, pu 1, jc) and is left, with 255 entries, once the
\* condition is read from beyond the stack; then pu 5, pu 5, which takes the
\* counter past stackSize, then st or lo, then ha
OverflowPrograms ==
  { << 2, 5, 2, 5, 2, 5, 2, 0, 2, 1, 18, 2, 5, 2, 5, opCode, 0 >> :
      opCode \in { 4, 5 } }

RunPrograms ==
  OperandPrograms \cup SledPrograms \cup JumpPrograms \cup OverflowPrograms

\* one program loaded into a new machine, then stepped
NextRuns ==
  \/ lastCall = "none" /\ (\E words \in RunPrograms : Load(words))
       /\ UNCHANGED <<assembly, controller>>
  \/ lastCall # "none" /\ Execute /\ UNCHANGED <<assembly, controller>>

SpecRuns == Init /\ [][NextRuns]_vars

\* lines of program text: mnemonics, numbers at and past the edges of the
\* word range, a mnemonic with its operand, codes that are no mnemonic, a
\* number with letters behind it, comments, a line without a word character
TextLines ==
  {
    << "p", "u" >>,
    << "j", "c" >>,
    << "4", "2" >>,
    << "1", "2", "7" >>,
    << "-", "1", "2", "8" >>,
    << "1", "2", "8" >>,
    << "-", "1", "2", "9" >>,
    << "p", "u", " ", "4", "2" >>,
    << "x", "x" >>,
    << "1", "2", "a", "b" >>,
    << "n", "o", " ", "#", " ", "a", " ", "b" >>,
    << "!" >>,
    << "0", "x", "1", "f" >>,
    << "-", "7", "#", "x" >>
  }

MaxLines == 2

RECURSIVE TextsOf(_)
TextsOf(n) ==
  IF n = 1 THEN TextLines
  ELSE { text \o << "\n" >> \o line : text \in TextsOf(n - 1),
                                      line \in TextLines }

\* a text of memorySize + 1 lines
tooLongText ==
  [i \in 1 .. (2 * memorySize + 1) |-> IF i % 2 = 1 THEN "1" ELSE "\n"]

\* the texts handed to the assembler: the empty text, a text with blank and
\* indented lines, the text that is too long, and the texts of up to
\* MaxLines lines
ProgramTexts ==
  UNION { TextsOf(n) : n \in 1 .. MaxLines }
    \cup { << >>, tooLongText, initialProgramText }

\* the assembler called by itself: one text parsed, its tree generated
NextAssembly ==
  \/ lastCall = "none" /\ \E text \in ProgramTexts : ParseProgram(text)
  \/ lastCall = "parseProgram" /\ thrown = "" /\ GenerateInstructions

SpecAssembly == Init /\ [][NextAssembly]_vars

\* operands of the texts below: the digits up to MaxDigit
MaxDigit == 1

\* a mnemonic alone, and a mnemonic behind pu a, pu b
MnemonicTexts ==
  { mnemonics[k] : k \in 1 .. Len(mnemonics) }
    \cup { << "p", "u", "\n", a, "\n", "p", "u", "\n", b, "\n" >>
             \o mnemonics[k] :
             k \in 1 .. Len(mnemonics),
             a \in UNION { DigitChars[d + 1] : d \in 0 .. MaxDigit },
             b \in UNION { DigitChars[d + 1] : d \in 0 .. MaxDigit } }

\* a text assembled, loaded into a new machine and stepped, as the
\* Controller's constructor and its #next do
NextAssembled ==
  \/ lastCall = "none" /\ \E text \in MnemonicTexts : ParseProgram(text)
  \/ lastCall = "parseProgram" /\ thrown = "" /\ GenerateInstructions
  \/ lastCall = "generateInstructions" /\ thrown = "" /\ Load(instructions)
       /\ UNCHANGED <<assembly, controller>>
  \/ lastCall \in { "load", "execute" } /\ thrown = "" /\ Execute
       /\ UNCHANGED <<assembly, controller>>

SpecAssembled == Init /\ [][NextAssembled]_vars

\* the page after new Controller(initialProgram), lines 135-152
InitController ==
  LET text == unindentProgram(initialProgramText)
      tree == parseProgram(text).tree
      words == generateInstructions(tree).words
  IN  /\ stack = ResetState.stack
      /\ stackCounter = 0
      /\ instructionPointer = 0
      /\ memory = [i \in 0 .. (memorySize - 1) |->
                     IF i < Len(words) THEN ToInt8(words[i + 1]) ELSE 0]
      /\ lastCall = "load"
      /\ report = NoReport
      /\ thrown = ""
      /\ programText = text
      /\ parseTree = tree
      /\ instructions = words
      /\ program = text
      /\ executionTerminated = FALSE
      /\ runIntervalId = null
      /\ timers = { }
      /\ onclick = "run"
      /\ lastEvent = "none"
      /\ alerted = ""

\* the texts submitted in the editor: ha; ju, whose first step fails; a
\* data word past the word range; the empty text; a code that is no
\* mnemonic
EditTexts ==
  { << "h", "a" >>,
    << "j", "u" >>,
    << "1", "2", "8" >>,
    << >>,
    << "x", "x" >> }

NextController ==
  \/ ClickNext
  \/ ClickRun
  \/ ClickStop
  \/ Tick
  \/ ClickReset
  \/ \E text \in EditTexts : SubmitEdit(text)

SpecController == InitController /\ [][NextController]_vars

-----------------------------------------------------------------------------
(* properties                                                              *)

\* the step taken is a call of execute
ExecuteStep == lastCall' = "execute"

\* the word execute fetches in the current state
Fetched == MemoryAt(instructionPointer)

\* C1: whenever execute returns success:false, memory, stack, stack counter
\* and instruction pointer are what they were before the call
C1_FailedStepChangesNothing ==
  [][(ExecuteStep /\ ~report'.success) => machine' = machine]_vars

\* C1 witness: a step failed in validation (127 + 127) with entries on the
\* stack and the pointer past the first instruction
C1_Witness ==
  /\ lastCall = "execute"
  /\ ~report.success
  /\ report.error = "Error: stackValuesPushed"
  /\ stackCounter = 2
  /\ instructionPointer = 4

\* C2: pop on an empty stack fails the step and leaves stack counter, memory
\* and instruction pointer unchanged
C2_PopOnEmptyStackFails ==
  [][(ExecuteStep /\ Fetched = getOpCodeByName("pop") /\ stackCounter = 0)
       => /\ ~report'.success
          /\ stackCounter' = stackCounter
          /\ memory' = memory
          /\ instructionPointer' = instructionPointer]_vars

\* C3: in every reachable state 0 <= stack counter <= stackSize
C3_StackCounterInBounds == 0 <= stackCounter /\ stackCounter <= stackSize

\* C4, as stated: after loading pu 42 / pu 0 / ju, every execute call returns
\* success with halt false
C4_EveryStepSucceeds ==
  lastCall = "execute" => (report.success /\ ~report.halt)

\* C4, amended: every execute call made while the stack counter does not
\* exceed stackSize succeeds with halt false, the pointer cycling 0, 2, 4, 0
\* and each cycle leaving one more entry on the stack; once the counter has
\* passed stackSize every call fails; no call ever halts
C4_RunsUntilStackOverflows ==
  [][ExecuteStep =>
       /\ ~report'.halt
       /\ report'.success <=> (stackCounter <= stackSize)
       /\ report'.success =>
            /\ instructionPointer' =
                 (IF instructionPointer = 4 THEN 0 ELSE instructionPointer + 2)
            /\ stackCounter' =
                 (IF instructionPointer = 4 THEN stackCounter - 1
                                            ELSE stackCounter + 1)
     ]_vars

\* C4 witness: the jump has failed with the counter past stackSize
C4_Witness ==
  /\ lastCall = "execute"
  /\ ~report.success
  /\ report.error = "Error: instructionPointerDiff"
  /\ stackCounter = stackSize + 1
  /\ instructionPointer = 4

Arithmetic == { "add", "subtract", "multiply", "divide" }

\* C5, as stated: every successful add, subtract, multiply or divide on a
\* stack of at least two entries pops 2 and leaves the counter one less
C5_ArithmeticNetsMinusOne ==
  [][(ExecuteStep /\ report'.success /\ report'.opName \in Arithmetic
        /\ stackCounter >= 2)
       => /\ report'.numStackValuesPopped = 2
          /\ stackCounter' = stackCounter - 1]_vars

\* C5, amended: a successful add, subtract or multiply pops 2 and leaves the
\* counter one less; a successful divide pops 2, pushes remainder and
\* quotient, and leaves the counter as it was
C5_ArithmeticPopsTwo ==
  [][(ExecuteStep /\ report'.success /\ report'.opName \in Arithmetic
        /\ stackCounter >= 2)
       => /\ report'.numStackValuesPopped = 2
          /\ stackCounter' =
               (IF report'.opName = "divide" THEN stackCounter
                                             ELSE stackCounter - 1)
          /\ Len(report'.stackValuesPushed) =
               (IF report'.opName = "divide" THEN 2 ELSE 1)]_vars

\* C5 witness: a divide has succeeded on a stack of exactly two entries
C5_Witness ==
  /\ lastCall = "execute"
  /\ report.success
  /\ report.opName = "divide"
  /\ stackCounter = 2

\* the step is an execute call that ran halt
HaltStep == ExecuteStep /\ report'.success /\ report'.halt

\* C6: as long as no halt step has succeeded since the last reset, the
\* instruction pointer is an integer in [0, memorySize): it is so in a new
\* machine and after every reset, and every step but a halt keeps it so
C6_PointerInMemory ==
  /\ isInAddressRange(instructionPointer)
  /\ [][(lastCall' = "reset" \/ (isInAddressRange(instructionPointer) /\ ~HaltStep))
          => isInAddressRange(instructionPointer')]_vars

\* C6 witness: a jump to an address outside the memory has been refused
C6_Witness ==
  /\ lastCall = "execute"
  /\ ~report.success
  /\ report.error = "Error: instructionPointerDiff"
  /\ StackAt(1) = 0 - 1
  /\ Fetched = getOpCodeByName("jump")

\* C7: after reset the memory and the stack are all zero and the counter and
\* the pointer are 0, which is the state of a new machine, so load and
\* execute, which read nothing else, go on as in a new machine
C7_ResetRestoresNewMachine ==
  lastCall = "reset" =>
    /\ \A i \in 0 .. (stackSize - 1) : stack[i] = 0
    /\ \A i \in 0 .. (memorySize - 1) : memory[i] = 0
    /\ stackCounter = 0
    /\ instructionPointer = 0

\* C7 witness: reset was called after a step failed on a loaded machine
C7_Witness ==
  /\ lastCall = "reset"
  /\ ~report.success
  /\ report.error = "Error: stackValuesPushed"

\* the pointer after a halt step: no word is fetched from it
Halted == instructionPointer = NaN

\* C8: a step that executes halt reports halt:true and changes neither
\* stack, counter nor memory; from then on, until reset, every execute call
\* fails and changes neither stack nor memory
C8_HaltIsTerminal ==
  [][/\ (ExecuteStep /\ Fetched = getOpCodeByName("halt"))
          => /\ report'.success /\ report'.halt
             /\ stack' = stack /\ stackCounter' = stackCounter
             /\ memory' = memory
             /\ Halted'
     /\ (Halted /\ ExecuteStep)
          => /\ ~report'.success
             /\ stack' = stack /\ stackCounter' = stackCounter
             /\ memory' = memory
     /\ (Halted /\ lastCall' # "reset") => Halted'
    ]_vars

\* C8 witness: an execute call has failed on a halted machine whose memory
\* holds a program
C8_Witness ==
  /\ Halted
  /\ lastCall = "execute"
  /\ ~report.success
  /\ memory[0] # 0

\* C9, as stated, for the runs in which no reset was called since the failed
\* call (reset leaves the pointer at 0 and only execute moves it, so with a
\* failure as the last report and the pointer not at 0 there was none):
\* every later execute call fails too
C9_FaultIsTerminal ==
  [][(~report.success /\ instructionPointer # 0 /\ ExecuteStep)
       => ~report'.success]_vars

\* C9, amended: once an execute call has returned success:false, every
\* execute call made before the next load or reset returns success:false
\* too, and changes nothing
C9_FaultRepeatsUntilLoadOrReset ==
  [][(lastCall = "execute" /\ ~report.success /\ ExecuteStep)
       => (~report'.success /\ machine' = machine)]_vars

\* C9 witness: an execute call has failed on a word that is no opcode
C9_Witness ==
  /\ lastCall = "execute"
  /\ ~report.success
  /\ report.error = "RangeError: invalid operation code"
  /\ Fetched = 19

\* the results of an arithmetic operation on top and second, in the order
\* pushed
Results(opName, top, second) ==
  CASE opName = "add" -> << top + second >>
    [] opName = "subtract" -> << top - second >>
    [] opName = "multiply" -> << top * second >>
    [] opName = "divide" ->
         IF second = 0 THEN << top, top >>
         ELSE << JsRem(top, second), FloorDiv(top, second) >>

WordRange == (0 - 128) .. 127

\* C10: an add, subtract, multiply or divide on two in-range operands whose
\* result lies outside [-128, 127] fails and changes nothing; one that
\* succeeds leaves its results on the stack as they are, not wrapped; and
\* every stack and memory cell holds a value in [-128, 127]
C10_ArithmeticNeverWraps ==
  /\ [](/\ \A i \in 0 .. (stackSize - 1) : stack[i] \in WordRange
        /\ \A i \in 0 .. (memorySize - 1) : memory[i] \in WordRange)
  /\ [][(ExecuteStep /\ getOpNameByCode(Fetched) \in Arithmetic
           /\ stackCounter >= 2 /\ stackCounter <= stackSize)
          => LET results == Results(getOpNameByCode(Fetched),
                                    StackAt(1), StackAt(2))
             IN  IF \E i \in 1 .. Len(results) : results[i] \notin WordRange
                   THEN ~report'.success /\ machine' = machine
                   ELSE report'.success =>
                          \A i \in 1 .. Len(results) :
                            stack'[stackCounter - 3 + i] = results[i]
        ]_vars

\* C10 witness: -128 divided by -1 has failed
C10_Witness ==
  /\ lastCall = "execute"
  /\ ~report.success
  /\ report.error = "Error: stackValuesPushed"
  /\ Fetched = getOpCodeByName("divide")
  /\ StackAt(1) = 0 - 128
  /\ StackAt(2) = 0 - 1

\* C11: execute never throws: whatever the state, it returns a report with a
\* success flag, and a failure report carries the error
C11_ExecuteNeverThrows ==
  lastCall = "execute" =>
    /\ thrown = ""
    /\ report.success \in BOOLEAN
    /\ ~report.success => report.error # ""

\* C11 witness: execute was called on a halted machine and returned the
\* error of its fetch
C11_Witness ==
  /\ lastCall = "execute"
  /\ Halted
  /\ thrown = ""
  /\ ~report.success
  /\ report.error = "RangeError: invalid operation code"

\* the canonical enumeration of the 19 operations, and the number of stack
\* entries each pops
CanonicalOperations ==
  << "halt", "noOperation", "push", "pop", "store", "load", "add",
     "subtract", "multiply", "divide", "less", "greater", "same",
     "different", "and", "or", "not", "jump", "jumpConditionally" >>

CanonicalPops == << 0, 0, 0, 1, 2, 1, 2, 2, 2, 2, 2, 2, 2, 2, 2, 2, 1, 1, 2 >>

\* C12: a word at IP outside 0..18 makes execute fail with the invalid-opcode
\* error and change nothing; a word in 0..18 is decoded as the operation at
\* that position of the canonical enumeration
C12_OpcodeDecoding ==
  [][(ExecuteStep /\ isInAddressRange(instructionPointer))
       => IF Fetched \notin 0 .. 18
            THEN /\ ~report'.success
                 /\ report'.error = "RangeError: invalid operation code"
                 /\ machine' = machine
            ELSE /\ report'.error # "RangeError: invalid operation code"
                 /\ report'.success =>
                      /\ report'.opCode = Fetched
                      /\ report'.opName = CanonicalOperations[Fetched + 1]
                      /\ report'.numStackValuesPopped = CanonicalPops[Fetched + 1]
     ]_vars

\* C12 witness: the word 127, reached by a jump, has been refused as an
\* opcode with entries on the stack
C12_Witness ==
  /\ lastCall = "execute"
  /\ ~report.success
  /\ report.error = "RangeError: invalid operation code"
  /\ Fetched = 127
  /\ stackCounter > 0

\* the top of the stack is an address of the memory
TopIsAddress ==
  stackCounter >= 1 /\ StackAt(1) \in 0 .. (memorySize - 1)

\* C13: a successful jump with address A on top pops exactly one entry,
\* reports the delta A - IP and leaves IP = A, whatever the IP was; a jump
\* whose top of stack is no address in [0, memorySize) fails and changes
\* nothing
C13_JumpIsAbsolute ==
  [][(ExecuteStep /\ Fetched = 17)
       => /\ report'.success =>
               /\ report'.numStackValuesPopped = 1
               /\ report'.stackValuesPushed = << >>
               /\ stackCounter' = stackCounter - 1
               /\ report'.instructionPointerDiff = StackAt(1) - instructionPointer
               /\ instructionPointer' = StackAt(1)
               /\ memory' = memory
          /\ TopIsAddress => report'.success
          /\ ~TopIsAddress => (~report'.success /\ machine' = machine)
     ]_vars

\* C13 witness: a jump at address 6 has gone back to address 3
C13_Witness ==
  /\ lastCall = "execute"
  /\ report.success
  /\ report.opName = "jump"
  /\ report.instructionPointerDiff = 0 - 3
  /\ instructionPointer = 3

\* C14: jumpConditionally pops exactly two entries, pushes nothing and writes
\* no memory; with condition (top) = 1 the IP becomes the target (second),
\* with any other condition the IP advances by 1, the step being a pop of
\* two entries and a no-op
C14_ConditionalJump ==
  [][(ExecuteStep /\ Fetched = 18)
       => /\ report'.success =>
               /\ report'.numStackValuesPopped = 2
               /\ report'.stackValuesPushed = << >>
               /\ report'.memoryAddressWritten = undefined
               /\ stackCounter' = stackCounter - 2
               /\ memory' = memory
               /\ instructionPointer' =
                    (IF StackAt(1) = 1 THEN StackAt(2)
                                       ELSE instructionPointer + 1)
               /\ report'.instructionPointerDiff =
                    instructionPointer' - instructionPointer
          /\ (stackCounter >= 2 /\ StackAt(1) # 1
                /\ instructionPointer + 1 < memorySize) => report'.success
     ]_vars

\* C14 witness: pu 0, pu 2, jc has run: condition 2, target 0, not taken
C14_Witness ==
  /\ lastCall = "execute"
  /\ report.success
  /\ report.opName = "jumpConditionally"
  /\ memory[1] = 0 /\ memory[3] = 2 /\ memory[4] = 18
  /\ instructionPointer = 5
  /\ stackCounter = 0

\* C15: divide with divisor (second) = 0 and dividend (top) = d pops two
\* entries and pushes d twice, so that the top is d and the counter is as
\* before, and advances the IP by 1 (wherever IP + 1 is an address, as for
\* every operation but halt); the zero divisor never makes it fail
C15_DivideByZero ==
  [][(ExecuteStep /\ Fetched = 9
        /\ stackCounter >= 2 /\ stackCounter <= stackSize
        /\ StackAt(2) = 0
        /\ instructionPointer + 1 < memorySize)
       => /\ report'.success
          /\ report'.numStackValuesPopped = 2
          /\ report'.stackValuesPushed = << StackAt(1), StackAt(1) >>
          /\ stackCounter' = stackCounter
          /\ stack'[stackCounter - 1] = StackAt(1)
          /\ stack'[stackCounter - 2] = StackAt(1)
          /\ instructionPointer' = instructionPointer + 1
     ]_vars

\* C15 witness: pu 0, pu -128, di has run
C15_Witness ==
  /\ lastCall = "execute"
  /\ report.success
  /\ report.opName = "divide"
  /\ memory[1] = 0 /\ memory[3] = 0 - 128 /\ memory[4] = 9
  /\ stackCounter = 2
  /\ StackAt(1) = 0 - 128 /\ StackAt(2) = 0 - 128

\* what load(words) is to leave behind
LoadFrame(words) ==
  LET rejected == Len(words) = 0 \/ Len(words) > memorySize
  IN /\ (thrown' # "") <=> rejected
     /\ rejected => machine' = machine
     /\ ~rejected =>
          /\ \A i \in 0 .. (memorySize - 1) :
               memory'[i] = (IF i < Len(words) THEN words[i + 1] ELSE memory[i])
          /\ UNCHANGED <<stack, stackCounter, instructionPointer>>

\* C16: load(words) fails when words is empty or longer than memorySize and
\* then changes nothing; when it succeeds it overwrites exactly
\* Memory[0 .. len - 1] and leaves the rest of the memory, the stack, the
\* stack counter and the IP as they were
C16_LoadFrame ==
  [][\A words \in LoadInputs : Load(words) => LoadFrame(words)]_vars

\* C16 witness: ha has been loaded over pu 127, pu 127, ad after one step of
\* that program
C16_Witness ==
  /\ lastCall = "load"
  /\ thrown = ""
  /\ memory[0] = 0 /\ memory[1] = 127 /\ memory[4] = 6
  /\ stackCounter = 1
  /\ instructionPointer = 2

\* the place of an operation in the canonical enumeration, from 0
CanonicalOrdinal(type) ==
  (CHOOSE k \in 1 .. Len(CanonicalOperations) :
     CanonicalOperations[k] = type) - 1

\* C17: Generate maps a sequence of parse nodes to an instruction array of
\* the same length and order: a Data node with value v yields v if and only
\* if -128 <= v <= 127 and otherwise makes Generate fail (128 and -129 are
\* rejected), and an Operation node yields the ordinal of its operation in
\* the canonical enumeration of 19 operations
C17_GenerateInstructions ==
  [][lastCall' = "generateInstructions"
       => LET rejected ==
                \E i \in 1 .. Len(parseTree) :
                  /\ parseTree[i].type = "data"
                  /\ (parseTree[i].value < 0 - 128 \/ parseTree[i].value > 127)
          IN  /\ (thrown' # "") <=> rejected
              /\ rejected => instructions' = instructions
              /\ ~rejected =>
                   /\ Len(instructions') = Len(parseTree)
                   /\ \A i \in 1 .. Len(parseTree) :
                        instructions'[i] =
                          (IF parseTree[i].type = "data"
                             THEN parseTree[i].value
                             ELSE CanonicalOrdinal(parseTree[i].type))
     ]_vars

\* C17 witness: Generate has rejected the tree of pu, 128
C17_Witness ==
  /\ lastCall = "generateInstructions"
  /\ thrown # ""
  /\ Len(parseTree) = 2
  /\ parseTree[1].type = "push"
  /\ parseTree[2].type = "data"
  /\ parseTree[2].value = 128

\* a line of one token of word characters, then white space, then nothing
\* or a comment behind a #
OneTokenLine(line) ==
  \E n \in 1 .. Len(line), m \in 1 .. Len(line) :
    /\ n <= m
    /\ \A k \in 1 .. n : line[k] \in WordChars
    /\ \A k \in (n + 1) .. m : line[k] \in WhiteSpace
    /\ m = Len(line) \/ line[m + 1] = "#"

\* the token a line begins with
LeadingToken(line) ==
  SubSeq(line, 1,
         Greatest({ n \in 0 .. Len(line) :
                      \A k \in 1 .. n : line[k] \in WordChars }))

\* an optional -, then decimal digits and nothing else
IntegerLiteral(token) ==
  LET digits == IF Len(token) >= 1 /\ token[1] = "-" THEN Tail(token)
                ELSE token
  IN  /\ Len(digits) >= 1
      /\ \A k \in 1 .. Len(digits) :
           \E d \in 1 .. 10 : digits[k] \in DigitChars[d]

Mnemonic(token) == \E k \in 1 .. Len(mnemonics) : mnemonics[k] = token

\* C18: Parse fails for every non-blank line that is not exactly one token
\* of word/digit/hyphen characters optionally followed by a #-comment (a
\* mnemonic and its operand on one line, say), and for every token that is
\* neither an integer literal nor one of the 19 mnemonics: no such line is
\* accepted as a node
C18_MalformedLinesRejected ==
  (/\ lastCall = "parseProgram"
   /\ \E i \in 1 .. Len(Lines(programText)) :
        LET line == Lines(programText)[i]
        IN  \/ ~OneTokenLine(line)
            \/ ~(IntegerLiteral(LeadingToken(line))
                   \/ Mnemonic(LeadingToken(line))))
    => thrown # ""

\* C19: when assembling an edited program fails at any stage (parse error,
\* data word out of range, empty program rejected by load), the edit is not
\* accepted: the controller's program text, parse tree and instruction
\* array and the machine's memory, stack and IP are left as they were
C19_FailedEditChangesNothing ==
  [][(lastEvent' = "edit" /\ alerted' # "")
       => UNCHANGED <<program, parseTree, instructions,
                      memory, stack, instructionPointer>>
     ]_vars

\* the step of the machine reported a failure or a halt
FailureOrHalt == ~report'.success \/ report'.halt

\* C20: while the timer runs, the first tick whose step reports a failure or
\* a halt marks execution terminated and cancels the timer in that same
\* tick; Reset and an accepted edit cancel a running timer too; and no timer
\* runs again until Run is pressed, however Run, Stop, Next, Reset, edits
\* and ticks interleave
C20_TimerCancelled ==
  [][/\ (lastEvent' = "tick" /\ FailureOrHalt)
          => (executionTerminated' /\ timers' = { } /\ runIntervalId' = null)
     /\ lastEvent' = "reset" => timers' = { }
     /\ (lastEvent' = "edit" /\ alerted' = "") => timers' = { }
     /\ (timers = { } /\ timers' # { }) => lastEvent' = "run"
     /\ lastEvent' = "tick" => timers # { }
     /\ Cardinality(timers') <= 1
     ]_vars

\* C20 witness: a tick has made the step that failed, and no timer is left
C20_Witness ==
  /\ lastEvent = "tick"
  /\ lastCall = "execute"
  /\ ~report.success
  /\ executionTerminated
  /\ timers = { }

\* C21: in every state reached from a new machine by load, execute and reset
\* calls, every stack slot at an index >= the stack counter holds 0: the
\* step that pops entries fills their slots with zero
C21_VacatedSlotsAreZero ==
  \A i \in 0 .. (stackSize - 1) : i >= stackCounter => stack[i] = 0

\* C21 witness: pu 7, pu 9, st has popped two entries that were not zero
C21_Witness ==
  /\ lastCall = "execute"
  /\ report.success
  /\ report.opName = "store"
  /\ report.memoryAddressWritten = 9
  /\ report.memoryValueWritten = 7
  /\ stackCounter = 0

\* the two operands of the step are entries of the stack
TwoOnStack == stackCounter >= 2 /\ stackCounter <= stackSize

\* C22: subtract, less and greater take their operands as (top, second):
\* with top = a and second = b on the stack, subtract pushes a - b, less
\* pushes 1 if a < b else 0, greater pushes 1 if a > b else 0; each pops 2,
\* pushes 1 and advances the IP by 1
C22_OperandOrder ==
  [][(ExecuteStep /\ Fetched \in { 7, 10, 11 } /\ TwoOnStack
        /\ report'.success)
       => LET a == StackAt(1)
              b == StackAt(2)
          IN  /\ report'.numStackValuesPopped = 2
              /\ report'.stackValuesPushed =
                   (CASE Fetched = 7 -> << a - b >>
                      [] Fetched = 10 -> << IF a < b THEN 1 ELSE 0 >>
                      [] Fetched = 11 -> << IF a > b THEN 1 ELSE 0 >>)
              /\ stackCounter' = stackCounter - 1
              /\ stack'[stackCounter - 2] = report'.stackValuesPushed[1]
              /\ instructionPointer' = instructionPointer + 1
     ]_vars

\* C22 witness: pu 3, pu -2, su has pushed top - second = -2 - 3
C22_Witness ==
  /\ lastCall = "execute"
  /\ report.success
  /\ report.opName = "subtract"
  /\ memory[1] = 3 /\ memory[3] = 0 - 2 /\ memory[4] = 7
  /\ stackCounter = 1
  /\ StackAt(1) = 0 - 5

\* the store or load with the given opcode is the step taken
StoreOrLoadStep(opCode) == ExecuteStep /\ Fetched = opCode

\* what C23 says of one step: a successful store writes second to
\* Memory[top] and nothing else and pops both; a successful load replaces the
\* top a by Memory[a], which is what the last store to a wrote, no other step
\* changing the memory; neither succeeds unless the top is an address
StoreAndLoad ==
  LET a == StackAt(1)
      v == StackAt(2)
  IN  /\ (StoreOrLoadStep(4) /\ report'.success)
           => /\ TopIsAddress
              /\ report'.numStackValuesPopped = 2
              /\ report'.stackValuesPushed = << >>
              /\ stackCounter' = stackCounter - 2
              /\ \A i \in 0 .. (memorySize - 1) :
                   memory'[i] = (IF i = a THEN v ELSE memory[i])
      /\ (StoreOrLoadStep(5) /\ report'.success)
           => /\ TopIsAddress
              /\ report'.numStackValuesPopped = 1
              /\ report'.stackValuesPushed = << memory[a] >>
              /\ stackCounter' = stackCounter
              /\ stack'[stackCounter - 1] = memory[a]
      /\ (ExecuteStep /\ ~(Fetched = 4 /\ report'.success))
           => memory' = memory
      /\ ((StoreOrLoadStep(4) \/ StoreOrLoadStep(5)) /\ ~TopIsAddress)
           => (~report'.success /\ machine' = machine)

\* C23: a successful store with top = a and second = v pops both entries,
\* sets Memory[a] = v and changes no other cell; a later load with a on top
\* (no store to a in between) replaces that top by v; a store or load whose
\* top of stack is no address in [0, memorySize) fails and changes nothing
C23_StoreAndLoad == [][StoreAndLoad]_vars

\* C23, as far as it holds: the same for every step taken while the counter
\* has not passed stackSize
C23_StoreAndLoadWithinStack ==
  [][stackCounter <= stackSize => StoreAndLoad]_vars

\* the mnemonic of each operation of the canonical enumeration, in its order
CanonicalMnemonics ==
  <<
    << "h", "a" >>, << "n", "o" >>, << "p", "u" >>, << "p", "o" >>,
    << "s", "t" >>, << "l", "o" >>, << "a", "d" >>, << "s", "u" >>,
    << "m", "u" >>, << "d", "i" >>, << "l", "e" >>, << "g", "r" >>,
    << "s", "a" >>, << "d", "f" >>, << "a", "n" >>, << "o", "r" >>,
    << "n", "t" >>, << "j", "u" >>, << "j", "c" >>
  >>

\* the node the step fetches its word from, if the memory still holds the
\* instructions there
FetchedNode == parseTree[instructionPointer + 1]

FetchesOperationNode ==
  /\ ExecuteStep
  /\ instructionPointer \in 0 .. (Len(instructions) - 1)
  /\ memory[instructionPointer] = instructions[instructionPointer + 1]
  /\ FetchedNode.type # "data"

\* C24: the assembler and the engine agree on the encoding: the 19 mnemonics
\* are pairwise distinct, and for each operation the opcode Generate emits
\* for its mnemonic is a word in 0..18 that the engine's fetch decodes back
\* to that operation, which has its own handler
C24_EncodingAgrees ==
  [][/\ Len(mnemonics) = 19
     /\ \A j, k \in 1 .. Len(mnemonics) :
          j # k => mnemonics[j] # mnemonics[k]
     /\ lastCall' = "generateInstructions" /\ thrown' = ""
          => \A i \in 1 .. Len(parseTree) :
               parseTree[i].type # "data"
                 => /\ instructions'[i] \in 0 .. 18
                    /\ CanonicalMnemonics[instructions'[i] + 1]
                         = parseTree[i].code
     /\ FetchesOperationNode
          => LET k == Fetched + 1
             IN  /\ k \in 1 .. 19
                 /\ CanonicalMnemonics[k] = FetchedNode.code
                 /\ getOpNameByCode(Fetched) = CanonicalOperations[k]
                 /\ report'.success
                      => report'.opName = CanonicalOperations[k]
                 /\ report'.error
                      \notin { "RangeError: invalid operation code",
                               "Error: no implementation for operation" }
     ]_vars

\* C24 witness: jc, written behind pu 0, pu 1, has been fetched as opcode 18
\* and run as jumpConditionally
C24_Witness ==
  /\ lastCall = "execute"
  /\ report.success
  /\ report.opCode = 18
  /\ report.opName = "jumpConditionally"
  /\ Len(parseTree) = 5
  /\ parseTree[5].code = << "j", "c" >>
  /\ parseTree[5].type = "jumpConditionally"
  /\ instructions[5] = 18

\* C25: for every successful divide with a nonzero divisor, over all in-range
\* dividends and divisors of either sign, the pushed quotient q and
\* remainder r satisfy dividend = q * divisor + r
C25_DivisionIdentity ==
  [][(ExecuteStep /\ Fetched = 9 /\ TwoOnStack /\ StackAt(2) # 0
        /\ report'.success)
       => LET remainder == report'.stackValuesPushed[1]
              quotient == report'.stackValuesPushed[2]
          IN  StackAt(1) = quotient * StackAt(2) + remainder
     ]_vars

====
